---- MODULE Spec2Model ----
(***************************************************************************)
(* devices/executorDevices.py: ExecutorDevice and LegacyDSP.               *)
(*                                                                         *)
(* Timestamps are fixed-point numbers, TimeUnit units per millisecond, so  *)
(* that float(t) * tickrate + 0.5 is computed exactly.  An optional value  *)
(* (None or a value) is a sequence of length 0 or 1.                       *)
(***************************************************************************)
EXTENDS Integers, Sequences, FiniteSets, TLC

\* LegacyDSP.__init__: self.tickrate, the number of ticks per ms.
tickrate == 10
\* analogs = [ [], [], [], [] ] and range(4) in onPrepareForExperiment.
NumChannels == 4
\* Fixed-point scale of a timestamp: units per millisecond.
TimeUnit == 100

\* Longest table of the compile specifications.
MaxRows == 2

Channels == 1..NumChannels
\* Timestamps of the rows: -0.06 ms and 0 are on tick 0, 0.05 ms on tick 1.
TimeStamps == {0 - 6, 0, 5}
DigitalValues == {0, 1}
AnalogValues == {0, 1}
Zeros == [c \in Channels |-> 0]
\* Analog argument vectors: the first two channels move, the others rest.
AnalogVectors ==
    {v \in [Channels -> AnalogValues] :
        /\ \A c \in Channels : c > 2 => v[c] = 0
        /\ Cardinality({c \in Channels : v[c] # 0}) <= 1}

Rows == [t : TimeStamps, handler : {"DSP"}, darg : DigitalValues,
         aargs : AnalogVectors]

\* The input invariant of an action table: non-decreasing timestamps.
Sorted(table) ==
    \A i \in 1..(Len(table) - 1) : table[i].t <= table[i + 1].t

Tables ==
    UNION {{tb \in [1..n -> Rows] : Sorted(tb)} : n \in 1..MaxRows}

\* repDuration: None, a number, or a string float() cannot convert.
NoRep == [kind |-> "None", val |-> 0]
NumRep(n) == [kind |-> "num", val |-> n]
BadRep == [kind |-> "str", val |-> 0]

Range(s) == {s[i] : i \in 1..Len(s)}
Min(a, b) == IF a < b THEN a ELSE b
Max(a, b) == IF a > b THEN a ELSE b

\* Python s[i:j] for 0 <= i, 0 <= j.
PySlice(s, i, j) == SubSeq(s, Min(i, Len(s)) + 1, Min(j, Len(s)))
\* Python s[-1:].
PyLastSlice(s) == SubSeq(s, Max(Len(s), 1), Len(s))
\* Python s[1:].
PyTailSlice(s) == SubSeq(s, 2, Len(s))

(***************************************************************************)
(* float: IEEE 754 doubles near the timestamps.  The double x is the record *)
(* [units, err] with x = (units + err / 2^59) / TimeUnit ms: units is the   *)
(* nearest timestamp and err the exact distance from it, an integer because *)
(* every double from 2^-7 ms up is a multiple of 2^-59 ms.                  *)
(***************************************************************************)

RECURSIVE Pow2Mod(_, _)
Pow2Mod(k, m) == IF k = 0 THEN 1 % m ELSE (2 * Pow2Mod(k - 1, m)) % m

\* 2^i for the binade [2^(i-7), 2^(i-6)) ms the timestamp n >= 1 lies in.
RECURSIVE BinadeFrom(_, _)
BinadeFrom(n, p) ==
    IF TimeUnit * 2 * p <= 128 * n THEN BinadeFrom(n, 2 * p) ELSE p

Binade(n) == BinadeFrom(n, 1)

RECURSIVE Log2(_)
Log2(p) == IF p <= 1 THEN 0 ELSE 1 + Log2(p \div 2)

\* The distance between neighbouring doubles in the binade of n.
Spacing(n) == TimeUnit * Binade(n)

\* n * 2^59 / Binade(n) modulo m: the numerator of n / TimeUnit scaled to a
\* 53 bit mantissa.
Scaled(n, m) == (n * Pow2Mod(59 - Log2(Binade(n)), m)) % m

\* err of float(n / TimeUnit): the mantissa is rounded to nearest (a tie
\* cannot occur, the scaled numerator being a multiple of 4).
RoundErr(n) ==
    IF n = 0 THEN 0
    ELSE LET r == Scaled(n, TimeUnit)
         IN  IF 2 * r < TimeUnit THEN (0 - r) * Binade(n)
             ELSE (TimeUnit - r) * Binade(n)

\* The mantissa of float(n / TimeUnit) is odd.
OddMantissa(n) ==
    ((Scaled(n, 2 * TimeUnit) + RoundErr(n) \div Binade(n)) % (2 * TimeUnit)) # 0

\* The three of them for the timestamps up to 8 ms, computed once.
FloatTable ==
    [n \in 0..(8 * TimeUnit) |->
        [err |-> RoundErr(n), spacing |-> Spacing(n), odd |-> OddMantissa(n)]]

FloatOf(n) ==
    IF n \in DOMAIN FloatTable THEN FloatTable[n]
    ELSE [err |-> RoundErr(n), spacing |-> Spacing(n), odd |-> OddMantissa(n)]

\* float(t) of a timestamp or a repDuration; float(-t) is -float(t).
Float(n) ==
    IF n >= 0 THEN [units |-> n, err |-> FloatOf(n).err]
    ELSE [units |-> n, err |-> 0 - FloatOf(0 - n).err]

\* x rounded to a multiple of u, ties to the even multiple; odd tells that
\* the multiple 0 stands for an odd mantissa.
RoundHalfEven(x, u, odd) ==
    LET q == x \div u
        rem == x - q * u
    IN  IF 2 * rem < u THEN q
        ELSE IF 2 * rem > u THEN q + 1
        ELSE IF (q % 2 = 0) # odd THEN q ELSE q + 1

\* The double nearest to the real number n units + d, for n >= 0 and a
\* small d.
RoundMagnitude(n, d) ==
    IF n = 0 THEN [units |-> 0, err |-> d]
    ELSE LET f == FloatOf(n)
         IN  IF 128 * n = f.spacing /\ d < 0
             THEN \* just below a power of two the doubles are twice as dense
                  [units |-> n,
                   err |-> (f.spacing \div 2)
                             * RoundHalfEven(d, f.spacing \div 2, FALSE)]
             ELSE [units |-> n,
                   err |-> f.err + f.spacing
                             * RoundHalfEven(d - f.err, f.spacing, f.odd)]

\* The result of one correctly rounded operation; rounding is symmetric
\* about zero.
RoundTo(n, d) ==
    IF n >= 0 THEN RoundMagnitude(n, d)
    ELSE LET r == RoundMagnitude(0 - n, 0 - d)
         IN  [units |-> 0 - r.units, err |-> 0 - r.err]

\* x - y and x + y of doubles.
FloatSub(x, y) == RoundTo(x.units - y.units, x.err - y.err)
FloatAdd(x, y) == RoundTo(x.units + y.units, x.err + y.err)

\* x < y
FloatLess(x, y) ==
    \/ x.units < y.units
    \/ x.units = y.units /\ x.err < y.err

(***************************************************************************)
(* The relative-time action list (both executeTable variants).             *)
(***************************************************************************)

\* (float(row[0]) - t0,) + tuple(row[2:]): the handler is dropped.  The time
\* of an action is the double of units t and distance err.
RebaseRow(row, t0) ==
    CHOOSE a \in {[t |-> x.units, err |-> x.err, darg |-> row.darg,
                   aargs |-> row.aargs] :
                      x \in {FloatSub(Float(row.t), Float(t0))}} : TRUE

Rebase(sel, t0) == [i \in 1..Len(sel) |-> RebaseRow(sel[i], t0)]

\* if actions[-1][0] < repDuration: actions.append((t0+repDuration,) + ...)
\* Called with a numeric repDuration and a non-empty list.
PadActions(actions, t0, rep) ==
    LET last == actions[Len(actions)]
    IN  IF FloatLess([units |-> last.t, err |-> last.err], Float(rep))
        THEN Append(actions,
                    CHOOSE a \in {[t |-> x.units, err |-> x.err,
                                   darg |-> last.darg, aargs |-> last.aargs] :
                                      x \in {FloatAdd(Float(t0), Float(rep))}} :
                        TRUE)
        ELSE actions

\* The exception raised by lines 140-144 / 235-239, "none" if none.
RepError(actions, rep) ==
    IF rep.kind = "None" THEN "none"
    ELSE IF rep.kind = "str" THEN "ValueError"
    ELSE IF Len(actions) = 0 THEN "IndexError"
    ELSE "none"

RepeatActions(actions, t0, rep) ==
    IF rep.kind = "num" /\ Len(actions) > 0
    THEN PadActions(actions, t0, rep.val) ELSE actions

\* ExecutorDevice.executeTable, lines 137-144.
CompileActions(table, startIndex, stopIndex, rep) ==
    IF startIndex >= Len(table)
    THEN [error |-> "IndexError", t0 |-> 0, sel |-> <<>>, actions |-> <<>>]
    ELSE LET t0 == table[startIndex + 1].t
             sel == PySlice(table, startIndex, stopIndex)
             actions == Rebase(sel, t0)
         IN  [error |-> RepError(actions, rep), t0 |-> t0, sel |-> sel,
              actions |-> IF RepError(actions, rep) = "none"
                          THEN RepeatActions(actions, t0, rep) ELSE <<>>]

(***************************************************************************)
(* The legacy profile (LegacyDSP.executeTable, lines 192-261).             *)
(***************************************************************************)

\* ticks = int(float(t) * self.tickrate + 0.5): int() truncates toward zero.
TicksOf(t) ==
    LET x == t * tickrate + TimeUnit \div 2
    IN  IF x >= 0 THEN x \div TimeUnit ELSE 0 - ((0 - x) \div TimeUnit)

\* offsets = map(lambda base, new: base - new, self._lastAnalogs, aargs)
Offsets(base, aargs) == [c \in Channels |-> base[c] - aargs[c]]

\* The test of lines 217-218 without the comparison to the previous entry.
AnalogChangedNonZero(a, offset) == offset # 0

\* The test of lines 217-218.
AnalogChanged(a, offset) ==
    \/ Len(a) = 0 /\ offset # 0
    \/ Len(a) > 0 /\ offset # a[Len(a)].value

\* The loop body with a clashing row overwriting the previous digital event.
CompileRowLastWins(st, row, base) ==
    LET ticks == TicksOf(row.t)
        clash == /\ Len(st.digitals) > 0
                 /\ ticks = st.digitals[Len(st.digitals)].ticks
                 /\ row.darg # st.digitals[Len(st.digitals)].value
        offsets == Offsets(base, row.aargs)
        hit == {c \in Channels : AnalogChanged(st.analogs[c], offsets[c])}
        kept == IF clash THEN SubSeq(st.digitals, 1, Len(st.digitals) - 1)
                ELSE st.digitals
    IN  [digitals |-> Append(kept, [ticks |-> ticks, value |-> row.darg]),
         analogs |-> [c \in Channels |->
                        IF c \in hit
                        THEN Append(st.analogs[c],
                                    [ticks |-> ticks, value |-> offsets[c]])
                        ELSE st.analogs[c]],
         tLastA |-> IF hit # {} THEN <<row.t>> ELSE st.tLastA,
         exceeded |-> st.exceeded \/ clash]

\* One pass of the loop body, lines 203-221.
CompileRow(st, row, base) ==
    LET ticks == TicksOf(row.t)
        clash == /\ Len(st.digitals) > 0
                 /\ ticks = st.digitals[Len(st.digitals)].ticks
                 /\ row.darg # st.digitals[Len(st.digitals)].value
        offsets == Offsets(base, row.aargs)
        hit == {c \in Channels : AnalogChanged(st.analogs[c], offsets[c])}
    IN  [digitals |-> Append(st.digitals, [ticks |-> ticks, value |-> row.darg]),
         analogs |-> [c \in Channels |->
                        IF c \in hit
                        THEN Append(st.analogs[c],
                                    [ticks |-> ticks, value |-> offsets[c]])
                        ELSE st.analogs[c]],
         tLastA |-> IF hit # {} THEN <<row.t>> ELSE st.tLastA,
         exceeded |-> st.exceeded \/ clash]

LoopStart ==
    [digitals |-> <<>>, analogs |-> [c \in Channels |-> <<>>],
     tLastA |-> <<>>, exceeded |-> FALSE]

RECURSIVE CompileRows(_, _, _)
CompileRows(st, sel, base) ==
    IF sel = <<>> THEN st
    ELSE CompileRows(CompileRow(st, Head(sel), base), Tail(sel), base)

\* tLastA >= digitals[-1][0]: a timestamp in ms against a tick count; None
\* orders below every number.
TimeAtLeastTicks(tLastA, ticks) ==
    tLastA # <<>> /\ tLastA[1] >= ticks * TimeUnit

\* Line 228 without its len(digitals) == 1 test.
NeedsExtraDigitalNoMinimum(digitals, tLastA) ==
    TimeAtLeastTicks(tLastA, digitals[Len(digitals)].ticks)

\* The test of line 228, on a non-empty digitals.
NeedsExtraDigital(digitals, tLastA) ==
    \/ Len(digitals) = 1
    \/ TimeAtLeastTicks(tLastA, digitals[Len(digitals)].ticks)

\* Lines 228-230.
WorkAround(digitals, tLastA) ==
    IF NeedsExtraDigital(digitals, tLastA)
    THEN Append(digitals, [ticks |-> digitals[Len(digitals)].ticks + 1,
                           value |-> digitals[Len(digitals)].value])
    ELSE digitals

\* reduce(max, ...) of line 250 on the ticks of the events, digitals being
\* non-empty; None (a channel without events) orders below every tick.
MaxOf(S) == CHOOSE x \in S : \A y \in S : y <= x

\* A number stored in a u4 field of the descriptor: its low 32 bits, as two
\* halves of 16 bits (a negative number wraps).
U4(x) == [hi |-> (x \div 65536) % 65536, lo |-> x % 65536]

AllTicks(digitals, analogs) ==
    {digitals[i].ticks : i \in 1..Len(digitals)} \cup
    UNION {{analogs[c][i].ticks : i \in 1..Len(analogs[c])} : c \in Channels}

\* The descriptor with the digital state after the profile as its InitDio.
DescribeAfter(digitals, analogs, lastDigital) ==
    [count |-> U4(MaxOf(AllTicks(digitals, analogs))),
     clock |-> 1000 \div tickrate,
     InitDio |-> digitals[Len(digitals)].value,
     nDigital |-> Len(digitals),
     nAnalog |-> [c \in Channels |-> Len(analogs[c])]]

\* Lines 244-256.
Describe(digitals, analogs, lastDigital) ==
    [count |-> U4(MaxOf(AllTicks(digitals, analogs))),
     clock |-> 1000 \div tickrate,
     InitDio |-> lastDigital,
     nDigital |-> Len(digitals),
     nAnalog |-> [c \in Channels |-> Len(analogs[c])]]

\* y[-1:][1:] or 0, line 261.
LastValueOrZero(y) ==
    IF PyTailSlice(PyLastSlice(y)) = <<>> THEN 0
    ELSE PyTailSlice(PyLastSlice(y))[1].value

\* Line 261.
UpdateAnalogs(lastAnalogs, analogs) ==
    [c \in Channels |-> lastAnalogs[c] - LastValueOrZero(analogs[c])]

NoDescription ==
    [count |-> U4(0), clock |-> 0, InitDio |-> 0, nDigital |-> 0,
     nAnalog |-> Zeros]

LegacyFailure(err) ==
    [error |-> err, t0 |-> 0, sel |-> <<>>, actions |-> <<>>,
     rowDigitals |-> <<>>,
     digitals |-> <<>>, analogs |-> [c \in Channels |-> <<>>],
     tLastA |-> <<>>, exceeded |-> FALSE, description |-> NoDescription,
     lastDigital |-> <<>>, lastAnalogs |-> <<>>]

\* Lines 228-261 with the row the repeat padding appends sent as one more
\* digital event.
FinishProfilePadded(st, sel, t0, rep, lastAnalogs, lastDigital) ==
    LET worked == WorkAround(st.digitals, st.tLastA)
        actions == Rebase(sel, t0)
        padded == RepeatActions(actions, t0, rep)
        digitals == IF Len(padded) > Len(actions)
                    THEN Append(worked,
                                [ticks |-> worked[Len(worked)].ticks + 1,
                                 value |-> worked[Len(worked)].value])
                    ELSE worked
    IN  IF RepError(actions, rep) # "none"
        THEN LegacyFailure(RepError(actions, rep))
        ELSE IF lastDigital = <<>> THEN LegacyFailure("AttributeError")
        ELSE [error |-> "none", t0 |-> t0, sel |-> sel,
              actions |-> padded,
              rowDigitals |-> st.digitals,
              digitals |-> digitals, analogs |-> st.analogs,
              tLastA |-> st.tLastA, exceeded |-> st.exceeded,
              description |-> Describe(digitals, st.analogs, lastDigital[1]),
              lastDigital |-> <<digitals[Len(digitals)].value>>,
              lastAnalogs |-> UpdateAnalogs(lastAnalogs, st.analogs)]

\* Lines 228-261 for the lists st the loop built: the profile and the
\* carried state it leaves, or the exception raised first.
FinishProfile(st, sel, t0, rep, lastAnalogs, lastDigital) ==
    LET digitals == WorkAround(st.digitals, st.tLastA)
        actions == Rebase(sel, t0)
    IN  IF RepError(actions, rep) # "none"
        THEN LegacyFailure(RepError(actions, rep))
        ELSE IF lastDigital = <<>> THEN LegacyFailure("AttributeError")
        ELSE [error |-> "none", t0 |-> t0, sel |-> sel,
              actions |-> RepeatActions(actions, t0, rep),
              rowDigitals |-> st.digitals,
              digitals |-> digitals, analogs |-> st.analogs,
              tLastA |-> st.tLastA, exceeded |-> st.exceeded,
              description |-> Describe(digitals, st.analogs, lastDigital[1]),
              lastDigital |-> <<digitals[Len(digitals)].value>>,
              lastAnalogs |-> UpdateAnalogs(lastAnalogs, st.analogs)]

\* LegacyDSP.executeTable, lines 192-261.  The rows are compiled once: the
\* result is the one element of the set built from the loop's final lists.
CompileProfile(table, startIndex, stopIndex, rep, lastAnalogs, lastDigital) ==
    IF startIndex >= Len(table) THEN LegacyFailure("IndexError")
    ELSE
    LET t0 == table[startIndex + 1].t
        sel == PySlice(table, startIndex, stopIndex)
    IN  IF sel # <<>> /\ Len(lastAnalogs) # NumChannels
        THEN LegacyFailure("TypeError")
        ELSE IF sel = <<>> THEN LegacyFailure("IndexError")
        ELSE CHOOSE r \in
                {FinishProfile(st, sel, t0, rep, lastAnalogs, lastDigital) :
                    st \in {CompileRows(LoopStart, sel, lastAnalogs)}} : TRUE

(***************************************************************************)
(* The devices and their state.                                            *)
(***************************************************************************)

\* Two instances, named by Device.__init__(self, name, config).
Devices == {"dsp", "legacy"}
LegacyDevices == {"legacy"}
GenericDevices == Devices \ LegacyDevices

\* Most completion notifications an unfinished remote run may still owe.
MaxPending == 1

VARIABLES
    connection,   \* self.connection is set (None after __init__)
    receiveUri,   \* self.receiveUri is set
    lastAnalogs,  \* self._lastAnalogs
    lastDigital,  \* self._lastDigital (unset after __init__)
    pc,           \* statement executeTable is at, 0 when no call is in flight
    frame,        \* the locals of the executeTable call in flight
    trace,        \* what the current (or last) call published and issued
    result,       \* how the last executeTable call ended
    lock,         \* the wait of executeAndWaitFor
    runs,         \* remote runs whose done notification is not delivered yet
    lastAbort,    \* the device and the outcome of the last onAbort
    prevFinal,    \* the analog args of the final row of the last compile
    preparing     \* onPrepareForExperiment waits in ReadDigital()

vars == <<connection, receiveUri, lastAnalogs, lastDigital, pc, frame, trace,
          result, lock, runs, lastAbort, prevFinal, preparing>>

\* The event type without the device's name.
DoneTagShared(d) == <<"EXECUTOR_DONE", "">>

\* events.EXECUTOR_DONE % self.name
DoneTag(d) == <<"EXECUTOR_DONE", d>>

\* Lines 145-149 with the status published after PrepareActions.
GenericBodyLate ==
    <<"PrepareActions", "status", "subscribe", "RunActions", "wait", "exec">>

\* Lines 145-149 with the execution event published before the wait.
GenericBodyEarly ==
    <<"status", "PrepareActions", "subscribe", "RunActions", "exec", "wait">>

\* The statements of ExecutorDevice.executeTable after the compile, in order;
\* events.executeAndWaitFor is three of them: it subscribes to the completion
\* event, calls RunActions and waits.
GenericBody ==
    <<"status", "PrepareActions", "subscribe", "RunActions", "wait", "exec">>

\* Lines 263-269 with InitProfile called before DownloadProfile.
LegacyBodySwapped ==
    <<"status", "profileSet", "InitProfile", "DownloadProfile", "subscribe",
      "RunActions", "wait", "exec">>

\* The statements of LegacyDSP.executeTable after the compile, in order.
LegacyBody ==
    <<"status", "profileSet", "DownloadProfile", "InitProfile", "subscribe",
      "RunActions", "wait", "exec">>

Body(d) == IF d \in LegacyDevices THEN LegacyBody ELSE GenericBody

Stmt(d) == IF pc[d] = 0 THEN "none" ELSE Body(d)[pc[d]]

Commands ==
    {"PrepareActions", "profileSet", "DownloadProfile", "InitProfile",
     "RunActions"}

NoFrame ==
    [numReps |-> 0, rep |-> NoRep, t0 |-> 0, sel |-> <<>>, actions |-> <<>>,
     rowDigitals |-> <<>>, digitals |-> <<>>, analogs |-> [c \in Channels |-> <<>>],
     tLastA |-> <<>>, exceeded |-> FALSE, description |-> NoDescription,
     entryDigital |-> <<>>, entryAnalogs |-> <<>>, entryLater |-> FALSE]

Init ==
    /\ connection = [d \in Devices |-> FALSE]
    /\ receiveUri = [d \in Devices |-> FALSE]
    /\ lastAnalogs = [d \in Devices |-> <<>>]
    /\ lastDigital = [d \in Devices |-> <<>>]
    /\ pc = [d \in Devices |-> 0]
    /\ frame = [d \in Devices |-> NoFrame]
    /\ trace = [d \in Devices |-> <<>>]
    /\ result = [d \in Devices |-> "none"]
    /\ lock = [d \in Devices |-> "free"]
    /\ runs = [d \in Devices |-> 0]
    /\ lastAbort = <<>>
    /\ prevFinal = [d \in Devices |-> <<>>]
    /\ preparing = [d \in Devices |-> FALSE]

\* events.publish of a completion event: every one-shot subscriber of the
\* tag is released and removed.
Publish(tag, by) ==
    lock' = [e \in Devices |->
                IF lock[e] = "locked" /\ DoneTag(e) = tag THEN by ELSE lock[e]]

\* ExecutorDevice.initialize: the connection is set before Abort() is called,
\* so it is set whether or not that call fails.
Initialize(d) ==
    /\ ~connection[d]
    /\ connection' = [connection EXCEPT ![d] = TRUE]
    /\ UNCHANGED <<receiveUri, lastAnalogs, lastDigital, pc, frame, trace,
                   result, lock, runs, lastAbort, prevFinal, preparing>>

\* ExecutorDevice.finalizeInitialization: receiveUri is set before the
\* connection is used.
FinalizeInitialization(d) ==
    /\ ~receiveUri[d]
    /\ receiveUri' = [receiveUri EXCEPT ![d] = TRUE]
    /\ UNCHANGED <<connection, lastAnalogs, lastDigital, pc, frame, trace,
                   result, lock, runs, lastAbort, prevFinal, preparing>>

\* onPrepareForExperiment, published before an experiment starts, so with no
\* executeTable call in flight, up to its wait in ReadDigital(): receiveClient,
\* the four ReadPosition calls and the assignment of line 170.  failAt names
\* the remote call that fails, base is what the connection reads.  The
\* generic handler (line 129) ends here and writes nothing.
OnPrepareForExperiment(d, failAt, base) ==
    /\ pc[d] = 0
    /\ ~preparing[d]
    /\ IF connection[d] /\ receiveUri[d] /\ d \in LegacyDevices
          /\ failAt = "none"
       THEN /\ lastAnalogs' = [lastAnalogs EXCEPT ![d] = base]
            /\ prevFinal' = [prevFinal EXCEPT ![d] = <<>>]
            /\ preparing' = [preparing EXCEPT ![d] = TRUE]
       ELSE UNCHANGED <<lastAnalogs, prevFinal, preparing>>
    /\ UNCHANGED <<connection, receiveUri, lastDigital, pc, frame, trace,
                   result, lock, runs, lastAbort>>

\* ReadDigital() of line 171 returns dig, which is assigned, or raises.
ReadDigitalReturns(d, ok, dig) ==
    /\ preparing[d]
    /\ preparing' = [preparing EXCEPT ![d] = FALSE]
    /\ lastDigital' = [lastDigital EXCEPT ![d] = IF ok THEN <<dig>> ELSE @]
    /\ UNCHANGED <<connection, receiveUri, lastAnalogs, pc, frame, trace,
                   result, lock, runs, lastAbort, prevFinal>>

\* The statement after the current one, or the return of executeTable.
Continue(d) ==
    LET last == pc[d] = Len(Body(d))
    IN  /\ pc' = [pc EXCEPT ![d] = IF last THEN 0 ELSE @ + 1]
        /\ result' = [result EXCEPT ![d] = IF last THEN "returned" ELSE @]
        /\ frame' = [frame EXCEPT ![d] = IF last THEN NoFrame ELSE @]

\* An exception leaves executeTable.
Raise(d) ==
    /\ pc' = [pc EXCEPT ![d] = 0]
    /\ result' = [result EXCEPT ![d] = "raised"]
    /\ frame' = [frame EXCEPT ![d] = NoFrame]

\* executeTable is called (one call at a time per device): the compile.
ExecuteTable(d, table, startIndex, stopIndex, numReps, rep) ==
    /\ pc[d] = 0
    /\ trace' = [trace EXCEPT ![d] = <<>>]
    /\ IF d \in LegacyDevices
       THEN \E r \in {CompileProfile(table, startIndex, stopIndex, rep,
                                    lastAnalogs[d], lastDigital[d])} :
                IF r.error # "none"
                THEN /\ Raise(d)
                     /\ UNCHANGED <<lastAnalogs, lastDigital, prevFinal>>
                ELSE /\ pc' = [pc EXCEPT ![d] = 1]
                     /\ result' = [result EXCEPT ![d] = "running"]
                     /\ frame' = [frame EXCEPT ![d] =
                           [numReps |-> numReps, rep |-> rep, t0 |-> r.t0,
                            sel |-> r.sel, actions |-> r.actions,
                            rowDigitals |-> r.rowDigitals,
                            digitals |-> r.digitals, analogs |-> r.analogs,
                            tLastA |-> r.tLastA, exceeded |-> r.exceeded,
                            description |-> r.description,
                            entryDigital |-> lastDigital[d],
                            entryAnalogs |-> lastAnalogs[d],
                            entryLater |-> prevFinal[d] # <<>>]]
                     /\ lastDigital' = [lastDigital EXCEPT ![d] = r.lastDigital]
                     /\ lastAnalogs' = [lastAnalogs EXCEPT ![d] = r.lastAnalogs]
                     /\ prevFinal' = [prevFinal EXCEPT ![d] =
                                         <<r.sel[Len(r.sel)].aargs>>]
       ELSE \E r \in {CompileActions(table, startIndex, stopIndex, rep)} :
                /\ IF r.error # "none"
                   THEN Raise(d)
                   ELSE /\ pc' = [pc EXCEPT ![d] = 1]
                        /\ result' = [result EXCEPT ![d] = "running"]
                        /\ frame' = [frame EXCEPT ![d] =
                              [NoFrame EXCEPT !.numReps = numReps,
                                              !.rep = rep, !.t0 = r.t0,
                                              !.sel = r.sel,
                                              !.actions = r.actions]]
                /\ UNCHANGED <<lastAnalogs, lastDigital, prevFinal>>
    /\ UNCHANGED <<connection, receiveUri, lock, runs, lastAbort, preparing>>

\* events.publish(events.UPDATE_STATUS_LIGHT, 'device waiting', ...)
PublishStatus(d) ==
    /\ Stmt(d) = "status"
    /\ trace' = [trace EXCEPT ![d] = Append(@, "status")]
    /\ Continue(d)
    /\ UNCHANGED <<connection, receiveUri, lastAnalogs, lastDigital, lock,
                   runs, lastAbort, prevFinal, preparing>>

\* PrepareActions, profileSet, DownloadProfile or InitProfile; ok is whether
\* the remote call succeeds.
RemoteCommand(d, ok) ==
    /\ Stmt(d) \in Commands \ {"RunActions"}
    /\ IF ~connection[d]
       THEN /\ Raise(d)
            /\ UNCHANGED trace
       ELSE IF ok
       THEN /\ trace' = [trace EXCEPT ![d] = Append(@, Stmt(d))]
            /\ Continue(d)
       ELSE /\ trace' = [trace EXCEPT ![d] =
                            Append(Append(@, Stmt(d)), "ConnectionError")]
            /\ Raise(d)
    /\ UNCHANGED <<connection, receiveUri, lastAnalogs, lastDigital, lock,
                   runs, lastAbort, prevFinal, preparing>>

\* events.executeAndWaitFor(tag, self.connection.RunActions) subscribes its
\* one-shot releaser to the completion event before it calls RunActions.
Subscribe(d) ==
    /\ Stmt(d) = "subscribe"
    /\ lock' = [lock EXCEPT ![d] = "locked"]
    /\ Continue(d)
    /\ UNCHANGED <<connection, receiveUri, lastAnalogs, lastDigital, trace,
                   runs, lastAbort, prevFinal, preparing>>

\* The call of RunActions inside executeAndWaitFor; ok is whether the remote
\* call succeeds.  A completion event published since the subscription has
\* released the wait already.  When the call raises, executeAndWaitFor is
\* left without a wait: the subscriber that stays behind holds a lock no
\* thread waits on, and the next completion event removes it.
RunActions(d, ok) ==
    /\ Stmt(d) = "RunActions"
    /\ IF connection[d] /\ ok
       THEN /\ runs[d] < MaxPending
            /\ trace' = [trace EXCEPT ![d] = Append(@, "RunActions")]
            /\ runs' = [runs EXCEPT ![d] = @ + 1]
            /\ Continue(d)
            /\ UNCHANGED lock
       ELSE /\ trace' = [trace EXCEPT ![d] =
                            IF connection[d]
                            THEN Append(Append(@, "RunActions"),
                                        "ConnectionError")
                            ELSE @]
            /\ lock' = [lock EXCEPT ![d] = "free"]
            /\ Raise(d)
            /\ UNCHANGED runs
    /\ UNCHANGED <<connection, receiveUri, lastAnalogs, lastDigital,
                   lastAbort, prevFinal, preparing>>

\* The wait of executeAndWaitFor ends: the completion event was published.
WaitReturn(d) ==
    /\ Stmt(d) = "wait"
    /\ lock[d] \in {"done", "abort"}
    /\ trace' = [trace EXCEPT ![d] = Append(@, lock[d])]
    /\ lock' = [lock EXCEPT ![d] = "free"]
    /\ Continue(d)
    /\ UNCHANGED <<connection, receiveUri, lastAnalogs, lastDigital, runs,
                   lastAbort, prevFinal, preparing>>

\* events.publish(events.EXPERIMENT_EXECUTION)
PublishExecution(d) ==
    /\ Stmt(d) = "exec"
    /\ trace' = [trace EXCEPT ![d] = Append(@, "exec")]
    /\ Continue(d)
    /\ UNCHANGED <<connection, receiveUri, lastAnalogs, lastDigital, lock,
                   runs, lastAbort, prevFinal, preparing>>

\* onAbort that waits for a connection instead of failing without one.
OnAbortBlocking(d, ok) ==
    /\ connection[d]
    /\ IF ok
       THEN /\ Publish(DoneTag(d), "abort")
            /\ lastAbort' = <<d, "published">>
       ELSE /\ lastAbort' = <<d, "raised">>
            /\ UNCHANGED lock
    /\ UNCHANGED <<connection, receiveUri, lastAnalogs, lastDigital, pc,
                   frame, trace, result, runs, prevFinal,
                   preparing>>

\* ExecutorDevice.onAbort; ok is whether connection.Abort() succeeds.  Without
\* a connection, or when Abort() raises, line 75 is not reached.  An aborted
\* run still owes its done notification.
OnAbort(d, ok) ==
    /\ IF connection[d] /\ ok
       THEN /\ Publish(DoneTag(d), "abort")
            /\ lastAbort' = <<d, "published">>
       ELSE /\ lastAbort' = <<d, "raised">>
            /\ UNCHANGED lock
    /\ UNCHANGED <<connection, receiveUri, lastAnalogs, lastDigital, pc,
                   frame, trace, result, runs, prevFinal,
                   preparing>>

\* A string is the sequence of its characters.
UpperCase ==
    <<"A", "B", "C", "D", "E", "F", "G", "H", "I", "J", "K", "L", "M",
    "N", "O", "P", "Q", "R", "S", "T", "U", "V", "W", "X", "Y", "Z">>
LowerCase ==
    <<"a", "b", "c", "d", "e", "f", "g", "h", "i", "j", "k", "l", "m",
    "n", "o", "p", "q", "r", "s", "t", "u", "v", "w", "x", "y", "z">>

\* The strings the code compares with.
Done == <<"d", "o", "n", "e">>
DspDone == <<"d", "s", "p", " ", "d", "o", "n", "e">>

\* What the remote sends to receiveData: 'done', 'Done', 'dsp done',
\* 'DSP DONE', 'ready'.
Messages ==
    {Done, <<"D", "o", "n", "e">>, DspDone,
     <<"D", "S", "P", " ", "D", "O", "N", "E">>,
     <<"r", "e", "a", "d", "y">>}

\* str.lower() of one character: an upper case letter becomes its lower case
\* letter, every other character stays.
LowerTable ==
    [c \in Range(UpperCase) |->
        LowerCase[CHOOSE i \in 1..Len(UpperCase) : UpperCase[i] = c]]

LowerChar(c) == IF c \in DOMAIN LowerTable THEN LowerTable[c] ELSE c

\* action.lower()
LowerString(action) == [i \in 1..Len(action) |-> LowerChar(action[i])]

\* action.lower() of the messages, computed once.
LowerOfMessages == [m \in Messages |-> LowerString(m)]

Lower(action) ==
    IF action \in Messages THEN LowerOfMessages[action]
    ELSE LowerString(action)

\* The tests of receiveData without action.lower().
AcceptsExact(d, action) ==
    IF d \in LegacyDevices
    THEN action = DspDone
    ELSE action \in {Done, DspDone}

\* The tests of receiveData (lines 116 and 176).
Accepts(d, action) ==
    IF d \in LegacyDevices
    THEN Lower(action) = DspDone
    ELSE Lower(action) \in {Done, DspDone}

\* The remote's completion notification of a run, whatever its spelling.
Notification(action) == Lower(action) \in {Done, DspDone}

\* receiveData, called by the remote once finalizeInitialization registered it.
ReceiveData(d, action) ==
    /\ receiveUri[d]
    /\ Notification(action) => runs[d] > 0
    /\ runs' = [runs EXCEPT ![d] = IF Notification(action) THEN @ - 1 ELSE @]
    /\ IF Accepts(d, action)
       THEN Publish(DoneTag(d), "done")
       ELSE UNCHANGED lock
    /\ UNCHANGED <<connection, receiveUri, lastAnalogs, lastDigital, pc,
                   frame, trace, result, lastAbort, prevFinal, preparing>>

(***************************************************************************)
(* Spec: both devices, every handler, small tables.                        *)
(***************************************************************************)

\* The one table of this specification: one row at t = 0.
SmallTables ==
    {<<[t |-> 0, handler |-> "DSP", darg |-> 1, aargs |-> Zeros]>>}

Next ==
    \E d \in Devices :
        \/ Initialize(d)
        \/ FinalizeInitialization(d)
        \/ /\ pc[d] = 0
           /\ \E failAt \in {"none", "receiveClient", "ReadPosition"} :
                OnPrepareForExperiment(d, failAt, Zeros)
        \/ \E ok \in BOOLEAN : ReadDigitalReturns(d, ok, 0)
        \/ /\ pc[d] = 0
           /\ ~preparing[d]
           /\ \E table \in SmallTables, stopIndex \in {0, 1} :
                ExecuteTable(d, table, 0, stopIndex, 1, NoRep)
        \/ PublishStatus(d)
        \/ \E ok \in BOOLEAN : RemoteCommand(d, ok)
        \/ Subscribe(d)
        \/ \E ok \in BOOLEAN : RunActions(d, ok)
        \/ WaitReturn(d)
        \/ PublishExecution(d)
        \/ \E ok \in BOOLEAN : OnAbort(d, ok)
        \/ \E action \in Messages : ReceiveData(d, action)

Spec == Init /\ [][Next]_vars

(***************************************************************************)
(* SpecLegacy: the legacy device alone, initialized, every table.          *)
(***************************************************************************)

Ready ==
    /\ connection = [d \in Devices |-> TRUE]
    /\ receiveUri = [d \in Devices |-> TRUE]
    /\ lastAnalogs = [d \in Devices |-> <<>>]
    /\ lastDigital = [d \in Devices |-> <<>>]
    /\ pc = [d \in Devices |-> 0]
    /\ frame = [d \in Devices |-> NoFrame]
    /\ trace = [d \in Devices |-> <<>>]
    /\ result = [d \in Devices |-> "none"]
    /\ lock = [d \in Devices |-> "free"]
    /\ runs = [d \in Devices |-> 0]
    /\ lastAbort = <<>>
    /\ prevFinal = [d \in Devices |-> <<>>]
    /\ preparing = [d \in Devices |-> FALSE]

LegacyReps == {NoRep, NumRep(1), BadRep}

NextLegacy ==
    \E d \in LegacyDevices :
        \/ \E base \in AnalogVectors :
                OnPrepareForExperiment(d, "none", base)
        \/ \E dig \in DigitalValues : ReadDigitalReturns(d, TRUE, dig)
        \/ /\ pc[d] = 0
           /\ ~preparing[d]
           /\ \E table \in Tables, startIndex \in {0, 1},
                 rep \in LegacyReps :
                ExecuteTable(d, table, startIndex, MaxRows, 1, rep)
        \/ PublishStatus(d)
        \/ RemoteCommand(d, TRUE)
        \/ Subscribe(d)
        \/ RunActions(d, TRUE)
        \/ ReceiveData(d, <<"D", "S", "P", " ", "D", "O", "N", "E">>)
        \/ WaitReturn(d)
        \/ PublishExecution(d)

SpecLegacy == Ready /\ [][NextLegacy]_vars

(***************************************************************************)
(* SpecGeneric: the generic device alone, initialized, every table.        *)
(***************************************************************************)

GenericReps == {NoRep, NumRep(0), NumRep(1), NumRep(5), BadRep}

\* Tables that also start late: 0.15 - 0.10 is a double below 0.05.
GenericTimeStamps == {0, 4, 5, 10, 15}

GenericTables ==
    UNION {{tb \in [1..n -> [t : GenericTimeStamps, handler : {"DSP"},
                             darg : DigitalValues, aargs : AnalogVectors]] :
                Sorted(tb)} : n \in 1..MaxRows}

NextGeneric ==
    \E d \in GenericDevices :
        \/ /\ pc[d] = 0
           /\ \E table \in GenericTables, startIndex \in {0, 1},
                 stopIndex \in {0, MaxRows}, rep \in GenericReps :
                ExecuteTable(d, table, startIndex, stopIndex, 1, rep)
        \/ PublishStatus(d)
        \/ RemoteCommand(d, TRUE)
        \/ Subscribe(d)
        \/ RunActions(d, TRUE)
        \/ ReceiveData(d, Done)
        \/ WaitReturn(d)
        \/ PublishExecution(d)

SpecGeneric == Ready /\ [][NextGeneric]_vars

(***************************************************************************)
(* Properties.                                                             *)
(***************************************************************************)

\* The profile of the legacy call in flight was handed to the connection.
Handed(d) == pc[d] # 0 /\ "profileSet" \in Range(trace[d])

\* C1: when onAbort runs while executeTable of the same device is blocked in
\* its wait, the wait is released, whether or not connection.Abort() succeeds.
C1_AbortReleasesWait ==
    [][\A d \in Devices :
          (/\ Stmt(d) = "wait"
           /\ lock[d] = "locked"
           /\ \E ok \in BOOLEAN : OnAbort(d, ok))
          => lock'[d] = "abort"]_vars

\* C2: onAbort can be invoked in every state; invoked while the connection is
\* unset it fails at once and changes nothing of the device, and executeTable
\* can start whenever no call is in flight.
C2_AbortSafeAnyTime ==
    /\ [](\A d \in Devices : ENABLED (\E ok \in BOOLEAN : OnAbort(d, ok)))
    /\ [](\A d \in Devices :
            pc[d] = 0 =>
                ENABLED (\E table \in SmallTables :
                            ExecuteTable(d, table, 0, 1, 1, NoRep)))
    /\ [][\A d \in Devices :
            (~connection[d] /\ \E ok \in BOOLEAN : OnAbort(d, ok))
            => /\ lastAbort' = <<d, "raised">>
               /\ UNCHANGED <<connection, receiveUri, lastAnalogs, lastDigital,
                              pc, frame, trace, result, lock, runs,
                              prevFinal, preparing>>]_vars

\* C2 witness: onAbort failed on the unset connection of a device whose
\* executeTable call is in flight.
C2_Witness ==
    \E d \in Devices :
        ~connection[d] /\ lastAbort = <<d, "raised">> /\ pc[d] # 0

\* C3: the execution event is published at most once per call, only right
\* after the wait returned (by a done notification or by an abort), and a
\* call has returned exactly when it published it.
C3_ExecutionPublishedOnce ==
    \A d \in Devices :
        LET tr == trace[d]
            at == {i \in 1..Len(tr) : tr[i] = "exec"}
        IN  /\ Cardinality(at) <= 1
            /\ \A i \in at : i > 1 /\ tr[i - 1] \in {"done", "abort"}
            /\ (result[d] = "returned") <=> (at # {})
            /\ (pc[d] = 0 /\ Range(tr) \cap {"done", "abort"} # {}) => at # {}

\* C3 witness: a generic call ended by an abort and a legacy call ended by a
\* done notification have both published the execution event.
C3_Witness ==
    /\ Len(trace["dsp"]) > 1
    /\ SubSeq(trace["dsp"], Len(trace["dsp"]) - 1, Len(trace["dsp"]))
            = <<"abort", "exec">>
    /\ Len(trace["legacy"]) > 1
    /\ SubSeq(trace["legacy"], Len(trace["legacy"]) - 1, Len(trace["legacy"]))
            = <<"done", "exec">>

\* C4: every command a call issues to the connection comes after the call
\* published the 'device waiting' status.
C4_StatusBeforeCommands ==
    \A d \in Devices :
        \A i \in 1..Len(trace[d]) :
            trace[d][i] \in Commands =>
                \E j \in 1..(i - 1) : trace[d][j] = "status"

\* C4 witness: both variants have issued their first command.
C4_Witness ==
    /\ "PrepareActions" \in Range(trace["dsp"])
    /\ "profileSet" \in Range(trace["legacy"])

\* C5: a done notification or an abort handled by one device leaves the wait
\* of every other device as it is; a wait is released only by a handler of
\* its own device.
C5_NoCrossSignal ==
    [][\A d \in Devices, e \in Devices :
          /\ (d # e /\ (\/ \E ok \in BOOLEAN : OnAbort(d, ok)
                        \/ \E action \in Messages : ReceiveData(d, action)))
                => lock'[e] = lock[e]
          /\ (d = e /\ lock[e] = "locked" /\ lock'[e] \in {"done", "abort"})
                => \/ \E ok \in BOOLEAN : OnAbort(e, ok)
                   \/ \E action \in Messages :
                        Accepts(e, action) /\ ReceiveData(e, action)]_vars

\* C5 witness: one device's wait was released while the other still waits.
C5_Witness ==
    \E d \in Devices, e \in Devices :
        d # e /\ lock[e] = "locked" /\ lock[d] \in {"done", "abort"}

\* C6: a compile whose rows all carry the final analog args of the previous
\* compile of the same instance has all-zero offsets and appends no analog
\* event, each baseline having been reduced by its channel's final event.
C6_BaselineCarryOver ==
    [][\A d \in LegacyDevices :
          (pc[d] = 0 /\ pc'[d] = 1) =>
            /\ \A c \in Channels :
                 lastAnalogs'[d][c] =
                    frame'[d].entryAnalogs[c] -
                    (IF frame'[d].analogs[c] = <<>> THEN 0
                     ELSE frame'[d].analogs[c][Len(frame'[d].analogs[c])].value)
            /\ (/\ prevFinal[d] # <<>>
                /\ \A i \in 1..Len(frame'[d].sel) :
                     frame'[d].sel[i].aargs = prevFinal[d][1])
               => /\ \A i \in 1..Len(frame'[d].sel), c \in Channels :
                       frame'[d].entryAnalogs[c] - frame'[d].sel[i].aargs[c] = 0
                  /\ \A c \in Channels : frame'[d].analogs[c] = <<>>]_vars

\* C7: the carried state of a legacy call holds its values of before the call
\* until the profile is handed to the connection, and after a call that
\* failed in the compile or in a remote command.
C7_CarriedStateAfterHandOver ==
    [][\A d \in LegacyDevices :
          /\ (pc'[d] # 0 /\ "profileSet" \notin Range(trace'[d]))
                => /\ lastDigital'[d] = frame'[d].entryDigital
                   /\ lastAnalogs'[d] = frame'[d].entryAnalogs
          /\ (pc[d] # 0 /\ pc'[d] = 0 /\ result'[d] = "raised")
                => /\ lastDigital'[d] = frame[d].entryDigital
                   /\ lastAnalogs'[d] = frame[d].entryAnalogs
          /\ (/\ pc[d] = 0 /\ pc'[d] = 0
              /\ \E table \in SmallTables, stopIndex \in {0, 1} :
                    ExecuteTable(d, table, 0, stopIndex, 1, NoRep))
                => /\ lastDigital'[d] = lastDigital[d]
                   /\ lastAnalogs'[d] = lastAnalogs[d]]_vars

\* C8: in every profile handed to the connection every analog event's tick is
\* below the last digital event's tick; an analog event at the last row's
\* tick got the last digital event duplicated one tick later.
C8_TrailingAnalogRule ==
    \A d \in LegacyDevices :
        Handed(d) =>
            LET f == frame[d]
                lastTick == f.digitals[Len(f.digitals)].ticks
                rowTick == TicksOf(f.sel[Len(f.sel)].t)
                analogTicks ==
                    UNION {{f.analogs[c][i].ticks : i \in 1..Len(f.analogs[c])} :
                            c \in Channels}
            IN  /\ \A a \in analogTicks : a < lastTick
                /\ (\E a \in analogTicks : a >= rowTick)
                      => /\ Len(f.digitals) = Len(f.sel) + 1
                         /\ lastTick = rowTick + 1

\* C9: a profile handed to the connection has at least 2 digital events, a
\* single-row selection has its digital event duplicated one tick later, and
\* the descriptor's count is the maximum tick of all events and the tick of
\* a digital event.
C9_TwoDigitalsAndDigitalLast ==
    \A d \in LegacyDevices :
        Handed(d) =>
            LET f == frame[d]
                digitalTicks == {f.digitals[i].ticks : i \in 1..Len(f.digitals)}
                analogTicks ==
                    UNION {{f.analogs[c][i].ticks : i \in 1..Len(f.analogs[c])} :
                            c \in Channels}
            IN  /\ Len(f.sel) >= 1
                /\ Len(f.digitals) >= 2
                /\ f.description.nDigital = Len(f.digitals)
                /\ Len(f.sel) = 1 =>
                      f.digitals =
                        <<[ticks |-> TicksOf(f.sel[1].t), value |-> f.sel[1].darg],
                          [ticks |-> TicksOf(f.sel[1].t) + 1,
                           value |-> f.sel[1].darg]>>
                /\ \E m \in digitalTicks :
                      /\ \A x \in digitalTicks \cup analogTicks : x <= m
                      /\ f.description.count = U4(m)

\* C9 witness: the profile of a single-row selection with an analog event
\* was handed to the connection.
C9_Witness ==
    \E d \in LegacyDevices :
        /\ Handed(d)
        /\ Len(frame[d].sel) = 1
        /\ Len(frame[d].digitals) = 2
        /\ \E c \in Channels : frame[d].analogs[c] # <<>>

\* C10: the action list of a generic call is the selected rows at their times
\* relative to the first of them, followed, exactly when repDuration is a
\* number above the last relative time, by one row at relative time
\* repDuration with the last row's values.
C10_RepeatPadding ==
    \A d \in GenericDevices :
        (pc[d] # 0 /\ frame[d].sel # <<>>) =>
            LET f == frame[d]
                rows == [i \in 1..Len(f.sel) |->
                            [t |-> f.sel[i].t - f.sel[1].t,
                             darg |-> f.sel[i].darg, aargs |-> f.sel[i].aargs]]
                last == rows[Len(rows)]
                sent == [i \in 1..Len(f.actions) |->
                            [t |-> f.actions[i].t, darg |-> f.actions[i].darg,
                             aargs |-> f.actions[i].aargs]]
            IN  IF f.rep.kind = "num" /\ f.rep.val > last.t
                THEN sent =
                        Append(rows, [t |-> f.rep.val, darg |-> last.darg,
                                      aargs |-> last.aargs])
                ELSE sent = rows

\* The digital events the rows of a selection stand for, one per row.
RowEvents(sel) ==
    [i \in 1..Len(sel) |-> [ticks |-> TicksOf(sel[i].t), value |-> sel[i].darg]]

\* Two consecutive rows of the selection share a tick with different digital
\* values.
Clashes(sel) ==
    \E i \in 2..Len(sel) :
        /\ TicksOf(sel[i].t) = TicksOf(sel[i - 1].t)
        /\ sel[i].darg # sel[i - 1].darg

\* C11: the loop of the legacy compile leaves exactly one digital event
\* (tick, digital value) per selected row, in row order; the list handed on
\* begins with them, at most one workaround event following; a row on the
\* tick of the previous event with another digital value is flagged and both
\* events are kept.
C11_DigitalPerRow ==
    \A d \in LegacyDevices :
        pc[d] # 0 =>
            LET f == frame[d]
            IN  /\ f.rowDigitals = RowEvents(f.sel)
                /\ Len(f.digitals) \in {Len(f.sel), Len(f.sel) + 1}
                /\ SubSeq(f.digitals, 1, Len(f.sel)) = RowEvents(f.sel)
                /\ f.exceeded <=> Clashes(f.sel)

\* C11 witness: a compiled selection of two rows on one tick with different
\* digital values, flagged.
C11_Witness ==
    \E d \in LegacyDevices :
        /\ pc[d] # 0
        /\ Len(frame[d].sel) = 2
        /\ Clashes(frame[d].sel)
        /\ frame[d].exceeded

\* The change-only list of one channel alone: the rows' ticks and the
\* channel's offsets, an entry kept when its offset differs from the last
\* kept one (from zero when none is kept yet).
RECURSIVE ChannelEvents(_, _, _, _)
ChannelEvents(kept, sel, base, c) ==
    IF sel = <<>> THEN kept
    ELSE LET offset == base[c] - Head(sel).aargs[c]
             prev == IF kept = <<>> THEN 0 ELSE kept[Len(kept)].value
         IN  ChannelEvents(IF offset # prev
                           THEN Append(kept, [ticks |-> TicksOf(Head(sel).t),
                                              value |-> offset])
                           ELSE kept,
                           Tail(sel), base, c)

\* C12: every analog channel's event list is change-only: its first entry has
\* a non-zero offset, consecutive entries have different offsets, a channel
\* whose analog argument is the same in all selected rows has at most one
\* entry, and each channel's list is determined by that channel's arguments
\* and baseline alone.
C12_AnalogChangeOnly ==
    \A d \in LegacyDevices :
        pc[d] # 0 =>
            LET f == frame[d]
            IN  \A c \in Channels :
                    LET a == f.analogs[c]
                    IN  /\ a # <<>> => a[1].value # 0
                        /\ \A i \in 1..(Len(a) - 1) : a[i].value # a[i + 1].value
                        /\ (\A i \in 1..Len(f.sel) :
                                f.sel[i].aargs[c] = f.sel[1].aargs[c])
                              => Len(a) <= 1
                        /\ a = ChannelEvents(<<>>, f.sel, f.entryAnalogs, c)
                        /\ f.description.nAnalog[c] = Len(a)

\* C12 witness: a compile in which one channel changes twice while another
\* channel, constant across the rows, has its single entry.
C12_Witness ==
    \E d \in LegacyDevices :
        /\ pc[d] # 0
        /\ \E c \in Channels, e \in Channels :
              /\ c # e
              /\ Len(frame[d].analogs[c]) = 2
              /\ Len(frame[d].analogs[e]) = 1
              /\ frame[d].sel[1].aargs[e] = frame[d].sel[2].aargs[e]

\* C13: the descriptor's InitDio is the digital state of before the profile:
\* _lastDigital changes only in onPrepareForExperiment, to the value read
\* from the connection, and in a compile, to the value of the compile's final
\* digital event; a compile puts into the descriptor the value it found.
C13_InitialDigitalIsPrevious ==
    [][\A d \in LegacyDevices :
          /\ (pc[d] = 0 /\ pc'[d] = 1) =>
                /\ frame'[d].description.InitDio = lastDigital[d][1]
                /\ lastDigital'[d] =
                      <<frame'[d].digitals[Len(frame'[d].digitals)].value>>
          /\ lastDigital'[d] # lastDigital[d] =>
                /\ pc[d] = 0
                /\ \/ pc'[d] = 1
                   \/ \E dig \in DigitalValues :
                        /\ ReadDigitalReturns(d, TRUE, dig)
                        /\ lastDigital'[d] = <<dig>>]_vars

\* C13 witness: a compile that follows another compile of the same
\* experiment has the other's final digital value as its InitDio, and ends
\* on a different one.
C13_Witness ==
    \E d \in LegacyDevices :
        /\ pc[d] # 0
        /\ frame[d].entryLater
        /\ frame[d].description.InitDio = frame[d].entryDigital[1]
        /\ lastDigital[d] # frame[d].entryDigital

\* C14: a call with an empty selection fails in the compile: no call that
\* got past the compile, and so none that publishes a status or issues a
\* command, has an empty selection.
C14_EmptySelectionFails ==
    \A d \in Devices : pc[d] # 0 => frame[d].sel # <<>>

\* C15: a call whose repDuration is present but is not a positive number
\* fails in the compile: every call that got past the compile, and so every
\* one that publishes a status or issues a command, has no repDuration or a
\* positive one.
C15_InvalidRepDurationFails ==
    \A d \in Devices :
        pc[d] # 0 =>
            \/ frame[d].rep.kind = "None"
            \/ frame[d].rep.kind = "num" /\ frame[d].rep.val > 0

\* The remote commands of one call, in the order the claim gives.
CommandOrder(d) ==
    IF d \in LegacyDevices
    THEN <<"profileSet", "DownloadProfile", "InitProfile", "RunActions">>
    ELSE <<"PrepareActions", "RunActions">>

\* C16: the remote commands a call issued are the first ones of the fixed
\* order of its variant, each once and in that order; a command that failed
\* is the last thing the call did, so that no command follows a failure; and
\* the wait ended only in a call that issued RunActions before.
C16_CommandOrder ==
    \A d \in Devices :
        LET tr == trace[d]
            IsCommand(x) == x \in Commands
            issued == SelectSeq(tr, IsCommand)
        IN  /\ Len(issued) <= Len(CommandOrder(d))
            /\ issued = SubSeq(CommandOrder(d), 1, Len(issued))
            /\ \A i \in 1..Len(tr) :
                  tr[i] = "ConnectionError" => i = Len(tr) /\ pc[d] = 0
            /\ \A i \in 1..Len(tr) :
                  tr[i] \in {"done", "abort"} =>
                      i > 1 /\ tr[i - 1] = "RunActions"

\* C16 witness: the legacy call issued its four commands and its wait has
\* ended, and the generic call ended on a failed PrepareActions.
C16_Witness ==
    /\ trace["legacy"] =
          <<"status", "profileSet", "DownloadProfile", "InitProfile",
            "RunActions", "done">>
    /\ trace["dsp"] = <<"status", "PrepareActions", "ConnectionError">>

\* C17: a wait is released by a done notification only when the notification
\* is the one of the run the waiting call started: notifications arrive in the
\* order of their runs, so no earlier run may still owe its own.
C17_WaitReleasedByOwnRun ==
    [][\A d \in Devices :
          (/\ lock[d] = "locked"
           /\ lock'[d] = "done"
           /\ pc[d] # 0
           /\ \E action \in Messages : ReceiveData(d, action))
          => Stmt(d) = "wait" /\ runs[d] = 1]_vars

\* The done messages of a device: 'done' and 'dsp done' in any case for the
\* generic device, 'dsp done' in any case for the legacy device.
DoneMessages(d) ==
    IF d \in LegacyDevices
    THEN {<<"d", "s", "p", " ", "d", "o", "n", "e">>,
          <<"D", "S", "P", " ", "D", "O", "N", "E">>}
    ELSE {<<"d", "o", "n", "e">>, <<"D", "o", "n", "e">>,
          <<"d", "s", "p", " ", "d", "o", "n", "e">>,
          <<"D", "S", "P", " ", "D", "O", "N", "E">>}

\* C18: receiveData publishes the device's completion event, releasing the
\* device's wait, exactly when the action is a done message of the device;
\* for every other action it leaves every wait as it is, and a wait released
\* by a notification was released by a done message.
C18_DoneMessagesOnly ==
    [][\A d \in Devices :
          /\ \A action \in Messages :
                ReceiveData(d, action) =>
                    IF action \in DoneMessages(d)
                    THEN lock' = [lock EXCEPT ![d] =
                                    IF @ = "locked" THEN "done" ELSE @]
                    ELSE lock' = lock
          /\ (lock[d] = "locked" /\ lock'[d] = "done") =>
                \E action \in DoneMessages(d) : ReceiveData(d, action)]_vars

\* C18 witness: the legacy device still waits after the one notification its
\* run owed arrived as a message it does not accept, and the generic device's
\* wait was released by a done message.
C18_Witness ==
    /\ Stmt("legacy") = "wait"
    /\ lock["legacy"] = "locked"
    /\ runs["legacy"] = 0
    /\ lock["dsp"] = "done"

\* C19: the profile of a legacy call (descriptor, digital events, analog
\* events) and the carried state the call leaves are those of the same call
\* without a repDuration, whatever valid repDuration it was given; only the
\* action list, which is not sent, differs.  Stated of the call whose compile
\* has just ended.
C19_ProfileIgnoresRepDuration ==
    \A d \in LegacyDevices :
        pc[d] = 1 =>
            LET f == frame[d]
            IN  \A p \in {CompileProfile(f.sel, 0, Len(f.sel), NoRep,
                                         f.entryAnalogs, f.entryDigital)} :
                    /\ p.error = "none"
                    /\ p.description = f.description
                    /\ p.digitals = f.digitals
                    /\ p.analogs = f.analogs
                    /\ p.lastDigital = lastDigital[d]
                    /\ p.lastAnalogs = lastAnalogs[d]

\* C19 witness: the compile of a call whose repDuration made the action list
\* one row longer than the selection has just ended.
C19_Witness ==
    \E d \in LegacyDevices :
        /\ pc[d] = 1
        /\ frame[d].rep.kind = "num"
        /\ Len(frame[d].actions) = Len(frame[d].sel) + 1
====
